---- MODULE Spec2Model ----
(***************************************************************************)
(* The filesystem server's path canonicalisation and root validation       *)
(* (src/src/filesystem/roots-utils.ts), the chunked head and tail reads of *)
(* its tests (src/unnamed/part_003), the handlers of the Oracle server     *)
(* that use the connection pool and its connect tool                       *)
(* (src/src/oracle/index.ts), the sessions of the SSE server               *)
(* (src/src/everything/sse.ts) and the log level of the STDIO server       *)
(* (src/unnamed/part_001).                                                 *)
(*                                                                         *)
(* A string is a sequence of one-character strings.  The host is a POSIX   *)
(* host: `path` is Node's path.posix, whose only separator is "/" and for  *)
(* which a backslash is an ordinary character.                             *)
(*                                                                         *)
(* Each part of the program has its own specification; the variables of    *)
(* the other parts keep their initial values in it.                        *)
(***************************************************************************)
EXTENDS Integers, Sequences, FiniteSets, TLC

VARIABLES
    \* calls of the path functions
    arg,    \* the argument of the call
    op,     \* which call has been made: "init" before any call
    res,    \* the value returned by the last call
    prev,   \* the value returned by the call before the last one
    home,   \* what os.homedir() answered during expandHome
    \* invocations of getValidRootDirectories, one entry per invocation
    roots,              \* the uri of each root of the argument, in order
    rpc,                \* where the invocation stands
    idx,                \* position in roots of the root being processed
    dir,                \* const dir of the current iteration
    settled,            \* how the awaited fs.stat settled
    validDirectories,   \* the arrays validDirectories
    returned,           \* the value the promise resolved to
    console,            \* the lines the invocation wrote with console.error
    statQueries,        \* the paths the invocation passed to fs.stat
    outstanding,        \* fs.stat queries of the invocation not yet settled
    \* calls of the Oracle server's query tool, and the connections of its pool
    reqArg,      \* request.params.arguments.sql of each request
    reqPc,       \* where the handler of each request stands
    reqConn,     \* let connection of each handler: 0 while undefined
    reqResult,   \* how each handler's promise settled
    checkedOut,  \* the connections of the pool handed out and not released
    connTxn,     \* the transaction open on each connection
    connLog,     \* the statements each connection was asked to execute
    warnings,    \* the number of console.warn lines of each handler
    reqTool,     \* the handler or tool each request is for
    reqStep,     \* how many of its statements the handler has executed
    closeCalls,  \* the calls of connection.close() each handler has made
    settledWith, \* what the promise of each handler settled with
    \* chunked reads of a file
    content,     \* the characters of the file
    numLines,    \* the number of lines asked for
    fileOp,      \* which routine has run
    fileResult,  \* what it returned
    \* the connect tool of the Oracle server
    pool,        \* let pool: which pool it is and whether it is open
    env,         \* process.env.ORACLE_USER and process.env.ORACLE_PASSWORD
    process,     \* whether the server process runs
    cArgs,       \* request.params.arguments of the call of connect
    cPc,         \* where the handler of the call stands
    cResult,     \* what the handler returned
    created,     \* how oracledb.createPool settled for the call
    before,      \* pool and env when the call arrived
    calls,       \* the number of calls of connect made
    \* the SSE server, one entry per client session
    transports,  \* the keys of the map transports
    getPc,       \* where the handler of GET /sse of the session stands
    link,        \* the client's connection of the session
    onclose,     \* whether server.onclose has been assigned
    cleaned,     \* whether cleanup() has been called
    posted,      \* what the last POST /message for the session found
    reconnect,   \* what the last GET /sse?sessionId= for the session did
    \* the STDIO server
    logLevel,    \* let logLevel
    lastSet,     \* the level of the most recent setLevel request
    logged       \* the last call of sendLoggingMessage and what it did

pathVars == <<arg, op, res, prev, home>>

rootVars == <<roots, rpc, idx, dir, settled, validDirectories, returned,
              console, statQueries, outstanding>>

queryVars == <<reqArg, reqPc, reqConn, reqResult, checkedOut, connTxn, connLog,
               warnings, reqTool, reqStep, closeCalls, settledWith>>

fileVars == <<content, numLines, fileOp, fileResult>>

connectVars == <<pool, env, process, cArgs, cPc, cResult, created, before, calls>>

sseVars == <<transports, getPc, link, onclose, cleaned, posted, reconnect>>

stdioVars == <<logLevel, lastSet, logged>>

vars == <<pathVars, rootVars, queryVars, fileVars, connectVars, sseVars, stdioVars>>

\* the variables that are not those of the path functions
notPathVars == <<rootVars, queryVars, fileVars, connectVars, sseVars, stdioVars>>

\* the variables that are not those of getValidRootDirectories
notRootVars == <<pathVars, queryVars, fileVars, connectVars, sseVars, stdioVars>>

\* the variables that are not those of the query tool
notQueryVars == <<pathVars, rootVars, fileVars, connectVars, sseVars, stdioVars>>

\* the variables that are not those of the chunked reads
notFileVars == <<pathVars, rootVars, queryVars, connectVars, sseVars, stdioVars>>

\* the variables that are not those of the connect tool
notConnectVars == <<pathVars, rootVars, queryVars, fileVars, sseVars, stdioVars>>

\* the variables that are not those of the SSE server
notSseVars == <<pathVars, rootVars, queryVars, fileVars, connectVars, stdioVars>>

\* the variables that are not those of the STDIO server
notStdioVars == <<pathVars, rootVars, queryVars, fileVars, connectVars, sseVars>>

\* most client sessions of the SSE server
MaxSessions == 2

\* the client sessions of the SSE server
Sessions == 1..MaxSessions

\* most calls of the query tool in flight
MaxRequests == 2

\* the requests calling the query tool
Requests == 1..MaxRequests

\* the connections of the pool
Connections == {1, 2}

\* the invocations of getValidRootDirectories
Invocations == {1, 2}

\* no call of a path function is made
PathIdle ==
    /\ arg = <<>>
    /\ op = "idle"
    /\ res = <<>>
    /\ prev = <<>>
    /\ home = <<>>

\* no invocation of getValidRootDirectories is made
QueryIdle ==
    /\ reqArg = [r \in Requests |-> [isString |-> FALSE, text |-> <<>>]]
    /\ reqPc = [r \in Requests |-> "idle"]
    /\ reqConn = [r \in Requests |-> 0]
    /\ reqResult = [r \in Requests |-> "none"]
    /\ checkedOut = {}
    /\ connTxn = [c \in Connections |-> "none"]
    /\ connLog = [c \in Connections |-> <<>>]
    /\ warnings = [r \in Requests |-> 0]
    /\ reqTool = [r \in Requests |-> "none"]
    /\ reqStep = [r \in Requests |-> 0]
    /\ closeCalls = [r \in Requests |-> 0]
    /\ settledWith = [r \in Requests |-> "none"]

\* no result: the handler has not returned
NoResult == [isError |-> FALSE, text |-> ""]

\* the pool created at start, the credentials of the environment, no call
ConnectIdle ==
    /\ pool = [id |-> 0, open |-> TRUE]
    /\ env = [user |-> <<"u">>, password |-> <<"p">>]
    /\ process = "running"
    /\ cArgs = <<>>
    /\ cPc = "idle"
    /\ cResult = NoResult
    /\ created = "none"
    /\ before = [pool |-> [id |-> 0, open |-> TRUE],
                 env |-> [user |-> <<"u">>, password |-> <<"p">>]]
    /\ calls = 0

SseIdle ==
    /\ transports = {}
    /\ getPc = [s \in Sessions |-> "none"]
    /\ link = [s \in Sessions |-> "none"]
    /\ onclose = [s \in Sessions |-> FALSE]
    /\ cleaned = [s \in Sessions |-> FALSE]
    /\ posted = [s \in Sessions |-> "none"]
    /\ reconnect = [s \in Sessions |-> "none"]

\* let logLevel = "debug", no request yet
StdioIdle ==
    /\ logLevel = "debug"
    /\ lastSet = "none"
    /\ logged = [level |-> "none", requested |-> "none", sent |-> FALSE]

\* the three servers at rest
ServersIdle == ConnectIdle /\ SseIdle /\ StdioIdle

FileIdle ==
    /\ content = <<>>
    /\ numLines = 0
    /\ fileOp = "idle"
    /\ fileResult = <<>>

RootsIdle ==
    /\ roots = [i \in Invocations |-> <<>>]
    /\ rpc = [i \in Invocations |-> "idle"]
    /\ idx = [i \in Invocations |-> 1]
    /\ dir = [i \in Invocations |-> <<>>]
    /\ settled = [i \in Invocations |-> "none"]
    /\ validDirectories = [i \in Invocations |-> <<>>]
    /\ returned = [i \in Invocations |-> <<>>]
    /\ console = [i \in Invocations |-> <<>>]
    /\ statQueries = [i \in Invocations |-> <<>>]
    /\ outstanding = [i \in Invocations |-> 0]

----------------------------------------------------------------------------
(* Bounds of the model *)

\* longest free part of an input string
MaxLen == 4

----------------------------------------------------------------------------
(* Characters *)

SLASH == "/"
BSLASH == "\\"
COLON == ":"
DOT == "."
SPACE == " "
SQUOTE == "'"
DQUOTE == "\""
TILDE == "~"

LowerLetters == {"c", "m", "n", "t", "h"}
UpperLetters == {"C", "M", "N", "T", "H"}

\* String.prototype.toUpperCase on one character
UpperChar(c) ==
    CASE c = "c" -> "C"
      [] c = "m" -> "M"
      [] c = "n" -> "N"
      [] c = "t" -> "T"
      [] c = "h" -> "H"
      [] OTHER -> c

\* the case folding of the regular-expression flag i
LowerChar(c) ==
    CASE c = "C" -> "c"
      [] c = "M" -> "m"
      [] c = "N" -> "n"
      [] c = "T" -> "t"
      [] c = "H" -> "h"
      [] OTHER -> c

\* the character class [a-zA-Z]
IsLetter(c) == c \in LowerLetters \cup UpperLetters

\* the character class [a-z]
IsLowerLetter(c) == c \in LowerLetters

\* the character class ["']
IsQuote(c) == c \in {SQUOTE, DQUOTE}

\* the white space String.prototype.trim removes
IsWhitespace(c) == c = SPACE

----------------------------------------------------------------------------
(* String primitives of JavaScript *)

\* s.slice(n) with n >= 0 (n counts characters from 0)
Slice(s, n) == IF n >= Len(s) THEN <<>> ELSE SubSeq(s, n + 1, Len(s))

\* s.charAt(n): the empty string when n is out of range
CharAt(s, n) == IF n < Len(s) THEN <<s[n + 1]>> ELSE <<>>

\* s.startsWith(pre)
StartsWith(s, pre) == Len(s) >= Len(pre) /\ SubSeq(s, 1, Len(pre)) = pre

\* s.toUpperCase()
ToUpperCase(s) == [i \in 1..Len(s) |-> UpperChar(s[i])]

\* s.trim()
Trim(s) ==
    LET solid == {i \in 1..Len(s) : ~IsWhitespace(s[i])}
    IN  IF solid = {} THEN <<>>
        ELSE LET lo == CHOOSE i \in solid : \A j \in solid : i <= j
                 hi == CHOOSE i \in solid : \A j \in solid : j <= i
             IN  SubSeq(s, lo, hi)

\* s.replace(/^["']|["']$/g, ''): the first alternative is tried at index 0,
\* the second at the last character of what follows the first match
StripQuotes(s) ==
    LET a == IF s # <<>> /\ IsQuote(s[1]) THEN Tail(s) ELSE s
    IN  IF a # <<>> /\ IsQuote(a[Len(a)]) THEN SubSeq(a, 1, Len(a) - 1) ELSE a

\* s.replace(/\//g, '\\')
SlashesToBackslashes(s) ==
    [i \in 1..Len(s) |-> IF s[i] = SLASH THEN BSLASH ELSE s[i]]

\* the characters of s at the positions keep, in order
Pick(s, keep) ==
    [k \in 1..Cardinality(keep) |->
        s[CHOOSE i \in keep : Cardinality({j \in keep : j <= i}) = k]]

\* s.replace(/\/+/g, '/')
CollapseSlashes(s) ==
    Pick(s, {i \in 1..Len(s) : ~(s[i] = SLASH /\ i > 1 /\ s[i - 1] = SLASH)})

\* s.replace(/\/+$/, '')
StripTrailingSlashes(s) ==
    LET solid == {i \in 1..Len(s) : s[i] # SLASH}
    IN  IF solid = {} THEN <<>>
        ELSE SubSeq(s, 1, CHOOSE i \in solid : \A j \in solid : j <= i)

\* s.replace(/\\\\/g, '\\'): non-overlapping pairs, left to right
RECURSIVE CollapseBackslashPairs(_)
CollapseBackslashPairs(s) ==
    IF Len(s) < 2 THEN s
    ELSE IF s[1] = BSLASH /\ s[2] = BSLASH
         THEN <<BSLASH>> \o CollapseBackslashPairs(Slice(s, 2))
         ELSE <<s[1]>> \o CollapseBackslashPairs(Tail(s))

----------------------------------------------------------------------------
(* Node's path module on a POSIX host (path.posix) *)

\* the pieces of s between its slashes
RECURSIVE SplitOnSlash(_)
SplitOnSlash(s) ==
    LET at == {i \in 1..Len(s) : s[i] = SLASH}
    IN  IF at = {} THEN <<s>>
        ELSE LET i == CHOOSE k \in at : \A j \in at : k <= j
             IN  <<SubSeq(s, 1, i - 1)>> \o SplitOnSlash(Slice(s, i))

\* segs joined by "/"
RECURSIVE JoinWithSlash(_)
JoinWithSlash(segs) ==
    IF segs = <<>> THEN <<>>
    ELSE IF Len(segs) = 1 THEN segs[1]
    ELSE segs[1] \o <<SLASH>> \o JoinWithSlash(Tail(segs))

\* normalizeString of lib/path.js: empty and "." segments are dropped, ".."
\* removes the segment before it, or is kept when there is none to remove and
\* the path is relative
RECURSIVE ResolveSegments(_, _, _)
ResolveSegments(segs, kept, allowAboveRoot) ==
    IF segs = <<>> THEN kept
    ELSE LET seg == Head(segs)
             rest == Tail(segs)
         IN  IF seg = <<>> \/ seg = <<DOT>>
             THEN ResolveSegments(rest, kept, allowAboveRoot)
             ELSE IF seg = <<DOT, DOT>>
             THEN IF kept # <<>> /\ kept[Len(kept)] # <<DOT, DOT>>
                  THEN ResolveSegments(rest, SubSeq(kept, 1, Len(kept) - 1), allowAboveRoot)
                  ELSE IF allowAboveRoot
                       THEN ResolveSegments(rest, Append(kept, seg), allowAboveRoot)
                       ELSE ResolveSegments(rest, kept, allowAboveRoot)
             ELSE ResolveSegments(rest, Append(kept, seg), allowAboveRoot)

normalizeString(s, allowAboveRoot) ==
    JoinWithSlash(ResolveSegments(SplitOnSlash(s), <<>>, allowAboveRoot))

\* path.normalize
pathNormalize(s) ==
    IF Len(s) = 0 THEN <<DOT>>
    ELSE LET isAbsolute == s[1] = SLASH
             trailingSeparator == s[Len(s)] = SLASH
             body == normalizeString(s, ~isAbsolute)
         IN  IF Len(body) = 0
             THEN IF isAbsolute THEN <<SLASH>>
                  ELSE IF trailingSeparator THEN <<DOT, SLASH>> ELSE <<DOT>>
             ELSE LET full == IF trailingSeparator THEN body \o <<SLASH>> ELSE body
                  IN  IF isAbsolute THEN <<SLASH>> \o full ELSE full

\* path.join(a, b): the non-empty arguments joined by "/", then normalized
pathJoin(a, b) ==
    LET joined == IF Len(a) = 0 THEN b
                  ELSE IF Len(b) = 0 THEN a
                  ELSE a \o <<SLASH>> \o b
    IN  IF Len(joined) = 0 THEN <<DOT>> ELSE pathNormalize(joined)

----------------------------------------------------------------------------
(* The regular expressions of roots-utils.ts *)

\* /^\/mnt\/[a-z]\//i
MatchesWslMount(s) ==
    /\ Len(s) >= 7
    /\ s[1] = SLASH
    /\ LowerChar(s[2]) = "m"
    /\ LowerChar(s[3]) = "n"
    /\ LowerChar(s[4]) = "t"
    /\ s[5] = SLASH
    /\ IsLowerLetter(LowerChar(s[6]))
    /\ s[7] = SLASH

\* /^\/[a-zA-Z]\//, and /^\/[a-z]\//i
MatchesUnixDrive(s) ==
    /\ Len(s) >= 3
    /\ s[1] = SLASH
    /\ IsLetter(s[2])
    /\ s[3] = SLASH

\* /^[a-zA-Z]:/
MatchesDriveLetter(s) ==
    /\ Len(s) >= 2
    /\ IsLetter(s[1])
    /\ s[2] = COLON

\* /^[a-z]:/
MatchesLowerDriveLetter(s) ==
    /\ Len(s) >= 2
    /\ IsLowerLetter(s[1])
    /\ s[2] = COLON

----------------------------------------------------------------------------
(* The functions of roots-utils.ts *)

\* convertToWindowsPath with the WSL rest taken one character early
\* (p.slice(5) for p.slice(6))
convertToWindowsPath_sliceFive(s) ==
    IF StartsWith(s, <<SLASH, "m", "n", "t", SLASH>>)
    THEN LET driveLetter == ToUpperCase(CharAt(s, 5))
             pathPart == SlashesToBackslashes(Slice(s, 5))
         IN  driveLetter \o <<COLON>> \o pathPart
    ELSE IF MatchesUnixDrive(s)
    THEN LET driveLetter == ToUpperCase(CharAt(s, 1))
             pathPart == SlashesToBackslashes(Slice(s, 2))
         IN  driveLetter \o <<COLON>> \o pathPart
    ELSE IF MatchesDriveLetter(s)
    THEN SlashesToBackslashes(s)
    ELSE s

\* convertToWindowsPath with the single-letter test written /^\/[a-z]\//
convertToWindowsPath_lowerOnly(s) ==
    IF StartsWith(s, <<SLASH, "m", "n", "t", SLASH>>)
    THEN LET driveLetter == ToUpperCase(CharAt(s, 5))
             pathPart == SlashesToBackslashes(Slice(s, 6))
         IN  driveLetter \o <<COLON>> \o pathPart
    ELSE IF MatchesUnixDrive(s) /\ IsLowerLetter(s[2])
    THEN LET driveLetter == ToUpperCase(CharAt(s, 1))
             pathPart == SlashesToBackslashes(Slice(s, 2))
         IN  driveLetter \o <<COLON>> \o pathPart
    ELSE IF MatchesDriveLetter(s)
    THEN SlashesToBackslashes(s)
    ELSE s

convertToWindowsPath(s) ==
    IF StartsWith(s, <<SLASH, "m", "n", "t", SLASH>>)
    THEN LET driveLetter == ToUpperCase(CharAt(s, 5))
             pathPart == SlashesToBackslashes(Slice(s, 6))
         IN  driveLetter \o <<COLON>> \o pathPart
    ELSE IF MatchesUnixDrive(s)
    THEN LET driveLetter == ToUpperCase(CharAt(s, 1))
             pathPart == SlashesToBackslashes(Slice(s, 2))
         IN  driveLetter \o <<COLON>> \o pathPart
    ELSE IF MatchesDriveLetter(s)
    THEN SlashesToBackslashes(s)
    ELSE s

\* p.trim().replace(/^["']|["']$/g, ''), the first statement of normalizePath
stripWrapping(s) == StripQuotes(Trim(s))

\* the test normalizePath makes on the stripped string
isUnixPath(s) ==
    /\ StartsWith(s, <<SLASH>>)
    /\ ~MatchesWslMount(s)
    /\ ~MatchesUnixDrive(s)

\* normalizePath without the capitalisation of the drive letter
normalizePath_noCapital(s) ==
    LET stripped == stripWrapping(s)
    IN  IF isUnixPath(stripped)
        THEN StripTrailingSlashes(CollapseSlashes(stripped))
        ELSE LET converted == convertToWindowsPath(stripped)
                 unescaped == CollapseBackslashPairs(converted)
                 normalized == pathNormalize(unescaped)
             IN  IF \/ MatchesDriveLetter(normalized)
                    \/ MatchesWslMount(normalized)
                    \/ MatchesUnixDrive(normalized)
                 THEN SlashesToBackslashes(normalized)
                 ELSE normalized

normalizePath(s) ==
    LET stripped == stripWrapping(s)
    IN  IF isUnixPath(stripped)
        THEN StripTrailingSlashes(CollapseSlashes(stripped))
        ELSE LET converted == convertToWindowsPath(stripped)
                 unescaped == CollapseBackslashPairs(converted)
                 normalized == pathNormalize(unescaped)
             IN  IF \/ MatchesDriveLetter(normalized)
                    \/ MatchesWslMount(normalized)
                    \/ MatchesUnixDrive(normalized)
                 THEN LET result == SlashesToBackslashes(normalized)
                      IN  IF MatchesLowerDriveLetter(result)
                          THEN ToUpperCase(CharAt(result, 0)) \o Slice(result, 1)
                          ELSE result
                 ELSE normalized

\* expandHome with the test written filepath.startsWith('~')
expandHome_anyTilde(filepath, homedir) ==
    IF StartsWith(filepath, <<TILDE>>)
    THEN pathJoin(homedir, Slice(filepath, 1))
    ELSE filepath

expandHome(filepath, homedir) ==
    IF StartsWith(filepath, <<TILDE, SLASH>>) \/ filepath = <<TILDE>>
    THEN pathJoin(homedir, Slice(filepath, 1))
    ELSE filepath

----------------------------------------------------------------------------
(* The calls *)

\* the characters of the free part of an input
BodyChars == {SLASH, BSLASH, DOT, SPACE, SQUOTE, "c"}

\* every string over BodyChars of at most MaxLen characters
Bodies == UNION {[1..n -> BodyChars] : n \in 0..MaxLen}

\* how an input starts: nothing, the WSL mount of a drive, near misses of it,
\* drive letters, a single-letter first segment, quotes, white space, a tilde
Prefixes ==
    { <<>>,
      <<SLASH, "m", "n", "t", SLASH, "c", SLASH>>,
      <<SLASH, "m", "n", "t", SLASH, "C", SLASH>>,
      <<SLASH, "M", "N", "T", SLASH, "c", SLASH>>,
      <<SLASH, "m", "n", "t", SLASH, "h", "c", SLASH>>,
      <<SLASH, "m", "n", "t", SLASH>>,
      <<SLASH, "m", "n", "t">>,
      <<"c", COLON>>,
      <<"C", COLON>>,
      <<SLASH, "c", SLASH>>,
      <<SLASH, "C", SLASH>>,
      <<SLASH, SLASH, "c", SLASH>>,
      <<SLASH, "h", "c", SLASH>>,
      <<DQUOTE>>,
      <<SQUOTE, SLASH>>,
      <<SPACE, DQUOTE, SLASH, "m", "n", "t", SLASH, "c", SLASH>>,
      <<DQUOTE, "c", COLON>>,
      <<TILDE>>,
      <<TILDE, "c">>,
      <<"c", TILDE>> }

Inputs == {pre \o body : pre \in Prefixes, body \in Bodies}

\* the directories os.homedir() may answer
HomeDirs == { <<SLASH, "h">>, <<SLASH, "h", SLASH, "c">> }

Init ==
    /\ arg \in Inputs
    /\ op = "init"
    /\ res = <<>>
    /\ prev = <<>>
    /\ home = <<>>
    /\ RootsIdle
    /\ QueryIdle
    /\ FileIdle
    /\ ServersIdle

\* the first statement of normalizePath, on its own
Strip ==
    /\ op = "init"
    /\ res' = stripWrapping(arg)
    /\ op' = "stripped"
    /\ UNCHANGED <<arg, prev, home>>
    /\ UNCHANGED notPathVars

\* normalizePath(arg)
Normalize ==
    /\ op = "init"
    /\ res' = normalizePath(arg)
    /\ op' = "normalized"
    /\ UNCHANGED <<arg, prev, home>>
    /\ UNCHANGED notPathVars

\* normalizePath applied to what normalizePath returned
NormalizeAgain ==
    /\ op = "normalized"
    /\ prev' = res
    /\ res' = normalizePath(res)
    /\ op' = "renormalized"
    /\ UNCHANGED <<arg, home>>
    /\ UNCHANGED notPathVars

\* convertToWindowsPath(arg)
Convert ==
    /\ op = "init"
    /\ res' = convertToWindowsPath(arg)
    /\ op' = "converted"
    /\ UNCHANGED <<arg, prev, home>>
    /\ UNCHANGED notPathVars

\* expandHome(arg), os.homedir() answering h
ExpandHome ==
    /\ op = "init"
    /\ \E h \in HomeDirs :
          /\ home' = h
          /\ res' = expandHome(arg, h)
    /\ op' = "expanded"
    /\ UNCHANGED <<arg, prev>>
    /\ UNCHANGED notPathVars

Next ==
    \/ Strip
    \/ Normalize
    \/ NormalizeAgain
    \/ Convert
    \/ ExpandHome

Spec == Init /\ [][Next]_vars

----------------------------------------------------------------------------
(* Vocabulary of the properties *)

IsSeparator(c) == c \in {SLASH, BSLASH}

\* s has two separators next to each other
HasAdjacentSeparators(s) ==
    \E i \in 1..(Len(s) - 1) : IsSeparator(s[i]) /\ IsSeparator(s[i + 1])

\* s has a run of two or more slashes
HasSlashRun(s) ==
    \E i \in 1..(Len(s) - 1) : s[i] = SLASH /\ s[i + 1] = SLASH

\* s has a run of two or more slashes, or of two or more backslashes
HasSeparatorRun(s) ==
    \E i \in 1..(Len(s) - 1) : IsSeparator(s[i]) /\ s[i + 1] = s[i]

\* s is made of slashes only, at least one
OnlySlashes(s) == s # <<>> /\ \A i \in 1..Len(s) : s[i] = SLASH

\* s is "/mnt/<letter>/<rest>"
WslForm(s) ==
    /\ Len(s) >= 7
    /\ SubSeq(s, 1, 5) = <<SLASH, "m", "n", "t", SLASH>>
    /\ IsLetter(s[6])
    /\ s[7] = SLASH

\* s is "/<letter>/<rest>"
UnixDriveForm(s) ==
    /\ Len(s) >= 3
    /\ s[1] = SLASH
    /\ IsLetter(s[2])
    /\ s[3] = SLASH

\* s is "<letter>:..."
DriveLetterForm(s) ==
    /\ Len(s) >= 2
    /\ IsLetter(s[1])
    /\ s[2] = COLON

\* s starts with "/" and has neither of the two single-letter forms
PlainPosixForm(s) ==
    /\ s # <<>>
    /\ s[1] = SLASH
    /\ ~WslForm(s)
    /\ ~UnixDriveForm(s)

\* "<UPPER(letter)>:\" followed by rest with each slash made a backslash
DrivePath(letter, rest) ==
    <<UpperChar(letter), COLON, BSLASH>> \o SlashesToBackslashes(rest)

\* the letters of s, in order
LettersOf(s) == SelectSeq(s, IsLetter)

----------------------------------------------------------------------------
(* C1 *)

\* C1: normalizePath is idempotent: applying it to its own result returns
\* that result.
C1_Idempotent == op = "renormalized" => res = prev

----------------------------------------------------------------------------
(* C2 *)

\* C2: an input made of slashes only normalizes to "/", and the result for a
\* plain POSIX path keeps its leading slash.
C2_RootKept ==
    op = "normalized" =>
        /\ OnlySlashes(arg) => res = <<SLASH>>
        /\ PlainPosixForm(arg) => (res # <<>> /\ res[1] = SLASH)

----------------------------------------------------------------------------
(* C3 *)

\* C3 as stated: every input "/mnt/<letter>/<rest>" normalizes to
\* "<UPPER(letter)>:\" followed by <rest> with each slash made a backslash.
\* It is stated for the inputs the first statement of normalizePath leaves as
\* they are, so that quotes and white space play no part in a violation.
C3_WslAnyRest ==
    (op = "normalized" /\ WslForm(arg) /\ stripWrapping(arg) = arg) =>
        res = DrivePath(arg[6], Slice(arg, 7))

\* C3, amended: when the input, after the first statement of normalizePath
\* (trim, then a leading and a trailing quote removed), is
\* "/mnt/<letter>/<rest>" and "/<rest>" has no two adjacent separators, the
\* result on a POSIX host is "<UPPER(letter)>:\" followed by <rest> with each
\* slash made a backslash.
C3_WslCleanRest ==
    LET s == stripWrapping(arg)
    IN  (op = "normalized" /\ WslForm(s) /\ ~HasAdjacentSeparators(Slice(s, 6))) =>
            res = DrivePath(s[6], Slice(s, 7))

\* a WSL path with a two-segment rest has been normalized
C3_Witness ==
    /\ op = "normalized"
    /\ arg = <<SLASH, "m", "n", "t", SLASH, "c", SLASH, "c", SLASH, "c">>
    /\ res = <<"C", COLON, BSLASH, "c", BSLASH, "c">>

----------------------------------------------------------------------------
(* C4 *)

\* C4 as stated: every input "/<letter>/<rest>" normalizes to
\* "<UPPER(letter)>:\" followed by <rest> with each slash made a backslash.
\* It is stated for the inputs the first statement of normalizePath leaves as
\* they are, so that quotes and white space play no part in a violation.
C4_UnixDriveAnyRest ==
    (op = "normalized" /\ UnixDriveForm(arg) /\ stripWrapping(arg) = arg) =>
        res = DrivePath(arg[2], Slice(arg, 3))

\* C4, amended: when the input, after the first statement of normalizePath,
\* is "/<letter>/<rest>" and "/<rest>" has no two adjacent separators, the
\* result on a POSIX host is "<UPPER(letter)>:\" followed by <rest> with each
\* slash made a backslash.
C4_UnixDriveCleanRest ==
    LET s == stripWrapping(arg)
    IN  (op = "normalized" /\ UnixDriveForm(s) /\ ~HasAdjacentSeparators(Slice(s, 2))) =>
            res = DrivePath(s[2], Slice(s, 3))

\* a single-letter path written with an upper-case letter has been normalized
C4_Witness ==
    /\ op = "normalized"
    /\ arg = <<SLASH, "C", SLASH, "c", SLASH, "c">>
    /\ res = <<"C", COLON, BSLASH, "c", BSLASH, "c">>

----------------------------------------------------------------------------
(* C5 *)

\* s with each run of slashes made one slash and a trailing slash removed,
\* the root "/" staying "/"
PosixCanonical(s) ==
    LET collapsed == CollapseSlashes(s)
    IN  IF collapsed = <<SLASH>> THEN collapsed
        ELSE IF collapsed[Len(collapsed)] = SLASH
             THEN SubSeq(collapsed, 1, Len(collapsed) - 1)
             ELSE collapsed

\* C5: a plain POSIX input (taken after the first statement of normalizePath)
\* normalizes to itself with slash runs collapsed and the trailing slash
\* removed; no backslash appears that the input did not hold.
C5_PlainPosix ==
    LET s == stripWrapping(arg)
    IN  (op = "normalized" /\ PlainPosixForm(s)) =>
            /\ res = PosixCanonical(s)
            /\ Len(SelectSeq(res, LAMBDA c : c = BSLASH))
                  <= Len(SelectSeq(s, LAMBDA c : c = BSLASH))

----------------------------------------------------------------------------
(* C6 *)

\* C6: when the input (after the first statement of normalizePath) is
\* "<letter>:...", the result holds no forward slash, starts with the
\* upper-case drive letter and the colon, and holds the letters that followed
\* the drive letter in their order and case.
C6_DriveLetter ==
    LET s == stripWrapping(arg)
    IN  (op = "normalized" /\ DriveLetterForm(s)) =>
            /\ \A i \in 1..Len(res) : res[i] # SLASH
            /\ Len(res) >= 2
            /\ res[1] = UpperChar(s[1])
            /\ res[1] \in UpperLetters
            /\ res[2] = COLON
            /\ LettersOf(Slice(res, 1)) = LettersOf(Slice(s, 1))

\* a lower-case drive path with both kinds of slash has been normalized
C6_Witness ==
    /\ op = "normalized"
    /\ arg = <<"c", COLON, SLASH, "c", BSLASH>>
    /\ res = <<"C", COLON, BSLASH, "c", BSLASH>>

----------------------------------------------------------------------------
(* C7 *)

\* C7: the result of normalizePath never holds a run of two or more
\* separators: of slashes in any result, and of slashes or backslashes in a
\* result of drive-letter form, where the backslash is the separator.
C7_NoSeparatorRun ==
    op = "normalized" =>
        /\ ~HasSlashRun(res)
        /\ DriveLetterForm(res) => ~HasSeparatorRun(res)

----------------------------------------------------------------------------
(* C8 *)

\* the stripping the claim describes: trim, then remove one pair of quotes
\* when the string starts and ends with the same quote character
StripMatchingPair(s) ==
    LET t == Trim(s)
    IN  IF Len(t) >= 2 /\ IsQuote(t[1]) /\ t[Len(t)] = t[1]
        THEN SubSeq(t, 2, Len(t) - 1)
        ELSE t

\* C8: the first statement of normalizePath trims and removes surrounding
\* quotes only as one matching pair.
C8_MatchingPairOnly == op = "stripped" => res = StripMatchingPair(arg)

----------------------------------------------------------------------------
(* C9 *)

\* C9: convertToWindowsPath returns unchanged every input that is none of
\* "/mnt/<letter>/...", "/<letter>/..." and "<letter>:...".
C9_OthersUnchanged ==
    (op = "converted" /\ ~WslForm(arg) /\ ~UnixDriveForm(arg) /\ ~DriveLetterForm(arg)) =>
        res = arg

----------------------------------------------------------------------------
(* C10 *)

\* s holds neither a slash nor a dot
IsPlainName(s) == s # <<>> /\ \A i \in 1..Len(s) : s[i] \notin {SLASH, DOT}

\* C10: expandHome returns the home directory for "~", the home directory
\* joined with what follows the tilde for "~/...", and any other input
\* unchanged; normalizePath leaves a leading "~" unexpanded.
C10_ExpandHome ==
    /\ op = "expanded" =>
          /\ arg = <<TILDE>> => res = home
          /\ StartsWith(arg, <<TILDE, SLASH>>) =>
                /\ res = pathJoin(home, Slice(arg, 1))
                /\ IsPlainName(Slice(arg, 2)) => res = home \o <<SLASH>> \o Slice(arg, 2)
          /\ (arg # <<TILDE>> /\ ~StartsWith(arg, <<TILDE, SLASH>>)) => res = arg
    /\ (op = "normalized" /\ StartsWith(arg, <<TILDE>>)) =>
          \A h \in HomeDirs : ~StartsWith(res, h)

\* "~/c" has been expanded under the home directory
C10_Witness ==
    /\ op = "expanded"
    /\ arg = <<TILDE, SLASH, "c">>
    /\ res = home \o <<SLASH, "c">>

----------------------------------------------------------------------------
(* Root validation: parseRootUri, formatDirectoryError and                 *)
(* getValidRootDirectories of roots-utils.ts, lines 11-61                   *)

\* most roots in the argument of one invocation
MaxRoots == 3

\* most roots in the argument of each of two interleaved invocations
MaxPairRoots == 2

\* process.cwd()
Cwd == <<SLASH, "h", "m">>

\* path.resolve(s): s made absolute against the working directory, its
\* segments resolved, no trailing slash
pathResolve(s) ==
    LET full == IF s # <<>> /\ s[1] = SLASH THEN s ELSE Cwd \o <<SLASH>> \o s
    IN  <<SLASH>> \o normalizeString(full, FALSE)

\* the literal 'file://'
FileScheme == <<"f", "i", "l", "e", COLON, SLASH, SLASH>>

\* uri.startsWith('file://') ? uri.slice(7) : uri
rawPathOf(uri) == IF StartsWith(uri, FileScheme) THEN Slice(uri, 7) ELSE uri

\* parseRootUri with the resolved path returned as it is, not normalized
parseRootUri_rawUri(uri) == rawPathOf(uri)

parseRootUri(uri) == normalizePath(pathResolve(rawPathOf(uri)))

\* the host's file system: its directories, its regular files, and the
\* entries whose stat fails for want of permission
HostDirectories ==
    { <<SLASH>>,
      <<SLASH, "h", "m">>,
      <<SLASH, "h", "m", SLASH, "t">>,
      <<SLASH, "t">>,
      <<SLASH, "c">>,
      <<SLASH, "c", SLASH, "t">>,
      <<SLASH, "m", "n", "t">>,
      <<SLASH, "m", "n", "t", SLASH, "c">>,
      <<SLASH, "m", "n", "t", SLASH, "c", SLASH, "t">> }

HostFiles == { <<SLASH, "h", "m", SLASH, "n">> }

HostUnreadable == { <<SLASH, "h", "m", SLASH, "c">> }

\* how fs.stat(d) settles: fulfilled with Stats, or rejected with an Error.
\* The kernel resolves d against the working directory; the empty path does
\* not exist.
fsStat(d) ==
    LET q == pathResolve(d)
    IN  IF d # <<>> /\ q \in HostDirectories
        THEN [fulfilled |-> TRUE, isDirectory |-> TRUE, message |-> ""]
        ELSE IF d # <<>> /\ q \in HostFiles
        THEN [fulfilled |-> TRUE, isDirectory |-> FALSE, message |-> ""]
        ELSE IF d # <<>> /\ q \in HostUnreadable
        THEN [fulfilled |-> FALSE, isDirectory |-> FALSE, message |-> "EACCES"]
        ELSE [fulfilled |-> FALSE, isDirectory |-> FALSE, message |-> "ENOENT"]

\* formatDirectoryError(dir, error, reason): the line as its pieces; an
\* argument left out is "" (falsy, like undefined)
formatDirectoryError(d, error, reason) ==
    IF reason # ""
    THEN <<"Skipping ", reason, ": ">> \o d
    ELSE <<"Skipping invalid directory: ">> \o d
             \o <<" due to error: ", error>>

\* the branch of the loop body a settled fs.stat leads to, with the catch
\* clause throwing the error again
decide_rethrow(st) ==
    IF st.fulfilled
    THEN IF st.isDirectory THEN "push" ELSE "logNonDirectory"
    ELSE "throw"

\* the branch of the loop body a settled fs.stat leads to, without the test
\* stats.isDirectory()
decide_anyStats(st) ==
    IF st.fulfilled THEN "push" ELSE "logError"

\* the branch of the loop body a settled fs.stat leads to (lines 48-57)
decide(st) ==
    IF st.fulfilled
    THEN IF st.isDirectory THEN "push" ELSE "logNonDirectory"
    ELSE "logError"

\* validDirectories.unshift(dir) for validDirectories.push(dir)
pushDirectory_unshift(list, d) == <<d>> \o list

\* validDirectories.push(dir)
pushDirectory(list, d) == Append(list, d)

\* one array validDirectories for every invocation (declared outside the
\* function)
accumulatorOf_shared(i) == 1

\* the array validDirectories of invocation i: created by the invocation
accumulatorOf(i) == i

\* the loop going on to the next root while the query is outstanding (no await)
mayIssue_noAwait(i) == rpc[i] \in {"loop", "awaiting"}

\* the loop takes a root only when no await of the invocation is pending
mayIssue(i) == rpc[i] = "loop"

\* the same root taken again after a failed query
nextIndex_retry(k, branch) == IF branch = "logError" THEN k ELSE k + 1

\* for (const root of roots): the position after that of the root processed
nextIndex(k, branch) == k + 1

\* top of the loop body: const dir = parseRootUri(root.uri), then fs.stat(dir)
\* is called and awaited
IssueStat(i) ==
    /\ mayIssue(i)
    /\ idx[i] <= Len(roots[i])
    /\ LET d == parseRootUri(roots[i][idx[i]])
       IN  /\ dir' = [dir EXCEPT ![i] = d]
           /\ statQueries' = [statQueries EXCEPT ![i] = Append(@, d)]
    /\ outstanding' = [outstanding EXCEPT ![i] = @ + 1]
    /\ rpc' = [rpc EXCEPT ![i] = "awaiting"]
    /\ UNCHANGED <<roots, idx, settled, validDirectories, returned, console>>
    /\ UNCHANGED notRootVars

\* the file system answers the outstanding query
StatSettles(i) ==
    /\ rpc[i] = "awaiting"
    /\ outstanding[i] > 0
    /\ settled' = [settled EXCEPT ![i] = fsStat(dir[i])]
    /\ outstanding' = [outstanding EXCEPT ![i] = @ - 1]
    /\ rpc' = [rpc EXCEPT ![i] = "settled"]
    /\ UNCHANGED <<roots, idx, dir, validDirectories, returned, console, statQueries>>
    /\ UNCHANGED notRootVars

\* the invocation resumes after the await: push, or one of the two log
\* lines; an error leaving the body rejects the promise
Resume(i) ==
    /\ rpc[i] = "settled"
    /\ LET branch == decide(settled[i])
           acc == accumulatorOf(i)
       IN  /\ validDirectories' =
                 IF branch = "push"
                 THEN [validDirectories EXCEPT ![acc] = pushDirectory(@, dir[i])]
                 ELSE validDirectories
           /\ console' =
                 IF branch = "logNonDirectory"
                 THEN [console EXCEPT ![i] =
                          Append(@, formatDirectoryError(dir[i], "", "non-directory root"))]
                 ELSE IF branch = "logError"
                 THEN [console EXCEPT ![i] =
                          Append(@, formatDirectoryError(dir[i], settled[i].message, ""))]
                 ELSE console
           /\ rpc' = [rpc EXCEPT ![i] = IF branch = "throw" THEN "rejected" ELSE "loop"]
           /\ idx' = [idx EXCEPT ![i] = nextIndex(@, branch)]
    /\ settled' = [settled EXCEPT ![i] = "none"]
    /\ UNCHANGED <<roots, dir, returned, statQueries, outstanding>>
    /\ UNCHANGED notRootVars

\* return validDirectories, after the last root
Return(i) ==
    /\ rpc[i] = "loop"
    /\ idx[i] > Len(roots[i])
    /\ returned' = [returned EXCEPT ![i] = validDirectories[accumulatorOf(i)]]
    /\ rpc' = [rpc EXCEPT ![i] = "resolved"]
    /\ UNCHANGED <<roots, idx, dir, settled, validDirectories, console,
                   statQueries, outstanding>>
    /\ UNCHANGED notRootVars

\* the uris of the roots a client sends: a file uri, a path with a trailing
\* slash, directories with a single-letter first segment and under a WSL
\* mount, a missing path, a regular file, an unreadable entry, the root and
\* a relative path
Uris ==
    { FileScheme \o <<SLASH, "t">>,
      <<SLASH, "t", SLASH>>,
      <<SLASH, "c", SLASH, "t">>,
      <<SLASH, "m", "n", "t", SLASH, "c", SLASH, "t">>,
      <<SLASH, "m">>,
      <<SLASH, "h", "m", SLASH, "n">>,
      <<SLASH, "h", "m", SLASH, "c">>,
      <<SLASH>>,
      <<"t">> }

\* the uris of the roots of two interleaved invocations
PairUris ==
    { FileScheme \o <<SLASH, "t">>,
      <<SLASH, "m">>,
      <<SLASH, "h", "m", SLASH, "n">> }

\* the lists of at most n uris of S
RootLists(S, n) == UNION {[1..k -> S] : k \in 0..n}

\* the state of the invocations in from after `const validDirectories = []`,
\* the others not made
RootsInit(S, n, made) ==
    /\ roots \in [Invocations -> RootLists(S, n)]
    /\ \A i \in Invocations \ made : roots[i] = <<>>
    /\ rpc = [i \in Invocations |-> IF i \in made THEN "loop" ELSE "idle"]
    /\ idx = [i \in Invocations |-> 1]
    /\ dir = [i \in Invocations |-> <<>>]
    /\ settled = [i \in Invocations |-> "none"]
    /\ validDirectories = [i \in Invocations |-> <<>>]
    /\ returned = [i \in Invocations |-> <<>>]
    /\ console = [i \in Invocations |-> <<>>]
    /\ statQueries = [i \in Invocations |-> <<>>]
    /\ outstanding = [i \in Invocations |-> 0]

\* one invocation
InitRoots ==
    PathIdle /\ QueryIdle /\ FileIdle /\ ServersIdle /\ RootsInit(Uris, MaxRoots, {1})

\* two invocations whose awaits interleave
InitRootsPair ==
    /\ PathIdle /\ QueryIdle /\ FileIdle /\ ServersIdle
    /\ RootsInit(PairUris, MaxPairRoots, Invocations)

NextRoots ==
    \E i \in Invocations :
        \/ IssueStat(i)
        \/ StatSettles(i)
        \/ Resume(i)
        \/ Return(i)

SpecRoots == InitRoots /\ [][NextRoots]_vars

SpecRootsPair == InitRootsPair /\ [][NextRoots]_vars

----------------------------------------------------------------------------
(* Vocabulary of the properties of root validation *)

\* the canonical paths computed for the roots, in input order
CanonicalPaths(uris) == [k \in 1..Len(uris) |-> parseRootUri(uris[k])]

\* the stat query on d succeeds and reports a directory
IsAccepted(d) == fsStat(d).fulfilled /\ fsStat(d).isDirectory

\* a is b with some of its entries left out, the others in b's order
RECURSIVE IsSubsequence(_, _)
IsSubsequence(a, b) ==
    IF a = <<>> THEN TRUE
    ELSE IF b = <<>> THEN FALSE
    ELSE IF Head(a) = Head(b) THEN IsSubsequence(Tail(a), Tail(b))
    ELSE IsSubsequence(a, Tail(b))

\* how many entries of list are d
Occurrences(list, d) == Cardinality({k \in 1..Len(list) : list[k] = d})

\* the elements of a list
Elements(list) == {list[k] : k \in 1..Len(list)}

\* the entries of list that pass the test, in order
RECURSIVE Kept(_)
Kept(list) ==
    IF list = <<>> THEN <<>>
    ELSE IF IsAccepted(Head(list)) THEN <<Head(list)>> \o Kept(Tail(list))
    ELSE Kept(Tail(list))

\* the log line expected for a path that is not accepted
ExpectedLine(d) ==
    IF fsStat(d).fulfilled
    THEN <<"Skipping ", "non-directory root", ": ">> \o d
    ELSE <<"Skipping invalid directory: ">> \o d
             \o <<" due to error: ", fsStat(d).message>>

\* the log lines expected for the paths of list, in order
RECURSIVE ExpectedLog(_)
ExpectedLog(list) ==
    IF list = <<>> THEN <<>>
    ELSE IF IsAccepted(Head(list)) THEN ExpectedLog(Tail(list))
    ELSE <<ExpectedLine(Head(list))>> \o ExpectedLog(Tail(list))

\* the decisions an invocation has made: pushes and log lines
Decisions(i) == Len(validDirectories[i]) + Len(console[i])

----------------------------------------------------------------------------
\* C11: the returned list is a subsequence of the canonical paths of the
\* input roots: each element is the canonical path of some root, the
\* survivors keep their input order, and a path that survives appears as
\* often as it appears among the canonical paths (no deduplication).
C11_Subsequence ==
    rpc[1] = "resolved" =>
        LET canon == CanonicalPaths(roots[1])
        IN  /\ IsSubsequence(returned[1], canon)
            /\ \A d \in Elements(canon) :
                   Occurrences(returned[1], d) \in {0, Occurrences(canon, d)}

\* a resolved invocation of three roots, the second dropped, the first and
\* the third with the same canonical path and both returned
C11_Witness ==
    /\ rpc[1] = "resolved"
    /\ Len(roots[1]) = 3
    /\ roots[1][1] # roots[1][3]
    /\ ~IsAccepted(parseRootUri(roots[1][2]))
    /\ Len(returned[1]) = 2
    /\ returned[1][1] = returned[1][2]

----------------------------------------------------------------------------
\* invocation i has a step to take
CanStep(i) ==
    \/ mayIssue(i) /\ idx[i] <= Len(roots[i])
    \/ rpc[i] = "awaiting" /\ outstanding[i] > 0
    \/ rpc[i] = "settled"
    \/ rpc[i] = "loop" /\ idx[i] > Len(roots[i])

\* C12: the promise is never rejected, an invocation that has not resolved
\* has a step to take, and every root after a failing one is still queried and, when
\* it is a directory, returned.
C12_NeverRejects ==
    /\ rpc[1] # "rejected"
    /\ rpc[1] = "resolved" \/ CanStep(1)
    /\ rpc[1] = "resolved" =>
           \A j \in 1..Len(roots[1]) : \A k \in (j + 1)..Len(roots[1]) :
               ~IsAccepted(parseRootUri(roots[1][j])) =>
                   /\ Len(statQueries[1]) >= k
                   /\ statQueries[1][k] = parseRootUri(roots[1][k])
                   /\ IsAccepted(parseRootUri(roots[1][k])) =>
                          parseRootUri(roots[1][k]) \in Elements(returned[1])

\* resolved with a first root whose stat failed, a second that is a regular
\* file, and a third that is a directory and is returned
C12_Witness ==
    /\ rpc[1] = "resolved"
    /\ Len(roots[1]) = 3
    /\ ~fsStat(parseRootUri(roots[1][1])).fulfilled
    /\ fsStat(parseRootUri(roots[1][2])).fulfilled
    /\ ~fsStat(parseRootUri(roots[1][2])).isDirectory
    /\ returned[1] = <<parseRootUri(roots[1][3])>>

----------------------------------------------------------------------------
\* the uri names an existing directory of the host
NamesDirectory(uri) == pathResolve(rawPathOf(uri)) \in HostDirectories

\* C13: when every root's uri names an existing directory of the host, the
\* returned list has the length of the input. (Stated for roots other than
\* the bare root '/', whose canonical path is the subject of C2.)
C13_AllValidKept ==
    (/\ rpc[1] = "resolved"
     /\ \A k \in 1..Len(roots[1]) :
            NamesDirectory(roots[1][k]) /\ rawPathOf(roots[1][k]) # <<SLASH>>)
        => Len(returned[1]) = Len(roots[1])

----------------------------------------------------------------------------
\* C14: the returned list is made of exactly the canonical paths whose stat
\* succeeds on a directory, and the log holds exactly one line for each other
\* root: with the path and the message of the failure, or with the path and
\* 'non-directory root'.
C14_KeptIffDirectory ==
    rpc[1] = "resolved" =>
        LET canon == CanonicalPaths(roots[1])
        IN  /\ returned[1] = Kept(canon)
            /\ console[1] = ExpectedLog(canon)

\* resolved with a root refused for want of permission, a regular file and
\* a directory: two log lines, one path returned
C14_Witness ==
    /\ rpc[1] = "resolved"
    /\ Len(returned[1]) = 1
    /\ Len(console[1]) = 2
    /\ \E k \in 1..2 : console[1][k][Len(console[1][k])] = "EACCES"
    /\ \E k \in 1..2 : console[1][k][2] = "non-directory root"

----------------------------------------------------------------------------
\* C15: at most one stat query of an invocation is outstanding; the queries
\* issued are those of the first roots, in input order; and a query is
\* issued only when every earlier one has been answered and decided.
C15_Sequential ==
    /\ outstanding[1] <= 1
    /\ Len(statQueries[1]) <= Len(roots[1])
    /\ \A k \in 1..Len(statQueries[1]) : statQueries[1][k] = parseRootUri(roots[1][k])
    /\ rpc[1] \in {"awaiting", "settled"} => Decisions(1) = Len(statQueries[1]) - 1
    /\ rpc[1] \in {"loop", "resolved"} => Decisions(1) = Len(statQueries[1])
    /\ outstanding[1] = 1 <=> rpc[1] = "awaiting"

\* the query of the third root outstanding, the first two roots decided: one
\* pushed, one logged
C15_Witness ==
    /\ rpc[1] = "awaiting"
    /\ outstanding[1] = 1
    /\ Len(statQueries[1]) = 3
    /\ Len(validDirectories[1]) = 1
    /\ Len(console[1]) = 1

----------------------------------------------------------------------------
\* C16: an invocation makes one stat query per root, never more (no retry of
\* a failed query), and for an empty list makes none and returns the empty
\* list.
C16_OneQueryPerRoot ==
    /\ Len(statQueries[1]) <= Len(roots[1])
    /\ rpc[1] = "resolved" => Len(statQueries[1]) = Len(roots[1])
    /\ (rpc[1] = "resolved" /\ roots[1] = <<>>) => returned[1] = <<>>

\* resolved after three roots whose queries all failed: three queries
C16_Witness ==
    /\ rpc[1] = "resolved"
    /\ Len(roots[1]) = 3
    /\ \A k \in 1..3 : ~fsStat(parseRootUri(roots[1][k])).fulfilled
    /\ Len(statQueries[1]) = 3
    /\ Len(console[1]) = 3

----------------------------------------------------------------------------
\* the list an invocation run alone returns: the loop from root k on
RECURSIVE RunAlone(_, _, _)
RunAlone(uris, k, acc) ==
    IF k > Len(uris) THEN acc
    ELSE LET d == parseRootUri(uris[k])
         IN  RunAlone(uris, k + 1,
                      IF decide(fsStat(d)) = "push" THEN pushDirectory(acc, d) ELSE acc)

\* C17: each of two interleaved invocations returns the list it returns
\* when run alone, and what an invocation has accepted is made of paths of
\* its own roots only.
C17_Independent ==
    \A i \in Invocations :
        /\ rpc[i] = "resolved" => returned[i] = RunAlone(roots[i], 1, <<>>)
        /\ Elements(validDirectories[i]) \subseteq Elements(CanonicalPaths(roots[i]))
        /\ Len(validDirectories[i]) <= Len(roots[i])

\* the first invocation has returned a path while the second, which has
\* accepted a path too, awaits the answer for its second root
C17_Witness ==
    /\ rpc[1] = "resolved"
    /\ Len(roots[1]) = 2
    /\ returned[1] # <<>>
    /\ rpc[2] = "awaiting"
    /\ idx[2] = 2
    /\ validDirectories[2] # <<>>
    /\ roots[1] # roots[2]

----------------------------------------------------------------------------
(* The query tool of the Oracle server: the CallToolRequestSchema handler   *)
(* of src/src/oracle/index.ts, lines 210-240                                *)

SEMICOLON == ";"
NEWLINE == "\n"

\* \s of /;\s*$/
IsSqlSpace(c) == c \in {SPACE, NEWLINE}

\* the position of the last character of s that is not white space, 0 if none
RECURSIVE LastNonSpace(_)
LastNonSpace(s) ==
    IF s = <<>> THEN 0
    ELSE IF IsSqlSpace(s[Len(s)]) THEN LastNonSpace(SubSeq(s, 1, Len(s) - 1))
    ELSE Len(s)

\* sql.replace(/;\s*$/, ""): a semicolon followed by nothing but white space
\* up to the end is removed with that white space
stripFinalSemicolon(s) ==
    LET k == LastNonSpace(s)
    IN  IF k > 0 /\ s[k] = SEMICOLON THEN SubSeq(s, 1, k - 1) ELSE s

\* const sql = typeof arguments?.sql === "string" ? sql.replace(...) : ""
sqlOf(a) == IF a.isString THEN stripFinalSemicolon(a.text) ELSE <<>>

\* the statement of line 223
SetReadOnly == <<"SET TRANSACTION READ ONLY">>

\* the values of arguments.sql the clients send: a query, with and without a
\* final semicolon, a statement that writes, a COMMIT, and a number
SqlArguments ==
    { [isString |-> TRUE, text |-> <<"SELECT">>],
      [isString |-> TRUE, text |-> <<"SELECT", SEMICOLON, SPACE, NEWLINE>>],
      [isString |-> TRUE, text |-> <<"INSERT", SEMICOLON>>],
      [isString |-> TRUE, text |-> <<"COMMIT">>],
      [isString |-> FALSE, text |-> <<>>] }

\* statements that change data
Writes(stmt) == stmt # <<>> /\ stmt[1] = "INSERT"

\* whether the database can execute stmt on a connection whose transaction
\* is txn: not an empty statement, not a write in a read-only transaction,
\* and SET TRANSACTION only as the first statement of a transaction
CanSucceed(stmt, txn) ==
    /\ stmt # <<>>
    /\ ~(Writes(stmt) /\ txn = "readonly")
    /\ stmt = SetReadOnly => txn = "none"

\* the transaction of the connection after stmt has been executed
TxnAfter(stmt, txn, ok) ==
    IF ~ok THEN txn
    ELSE IF stmt = SetReadOnly THEN "readonly"
    ELSE IF stmt = <<"COMMIT">> THEN "none"
    ELSE IF txn = "none" THEN "readwrite"
    ELSE txn

\* the handler going on to the client's statement whatever line 223 gave
afterSet_ignoreFailure(ok) == "executeSql"

\* where the handler goes after `await connection.execute("SET ...")`:
\* a rejection leaves the try block
afterSet(ok) == IF ok THEN "executeSql" ELSE "finally"

\* the first step of a handler once it has its connection: line 223 for the
\* query tool, the handler's first statement for the others
firstStep(tool) == IF tool = "query" THEN "setReadOnly" ELSE "execute"

\* connection.execute(stmt) by the handler of request r: the statement is
\* recorded with the transaction it ran in, and succeeds or fails
Execute(r, stmt, ok) ==
    LET c == reqConn[r]
    IN  /\ connLog' = [connLog EXCEPT ![c] =
                          Append(@, [stmt |-> stmt, txn |-> connTxn[c], ok |-> ok,
                                     client |-> reqTool[r] = "query"
                                                   /\ stmt # SetReadOnly])]
        /\ connTxn' = [connTxn EXCEPT ![c] = TxnAfter(stmt, @, ok)]

\* the request arrives: `if (!pool)` is passed (the pool exists whenever the
\* server runs), the tool is "query", and sql is computed
Call(r) ==
    /\ reqPc[r] = "idle"
    /\ \E a \in SqlArguments : reqArg' = [reqArg EXCEPT ![r] = a]
    /\ reqTool' = [reqTool EXCEPT ![r] = "query"]
    /\ reqPc' = [reqPc EXCEPT ![r] = "getConnection"]
    /\ UNCHANGED <<reqConn, reqResult, checkedOut, connTxn, connLog, warnings,
                   reqStep, closeCalls, settledWith>>
    /\ UNCHANGED notQueryVars

\* connection = await pool.getConnection(): a free connection, or a rejection
GetConnection(r) ==
    /\ reqPc[r] = "getConnection"
    /\ \/ \E c \in Connections \ checkedOut :
             /\ reqConn' = [reqConn EXCEPT ![r] = c]
             /\ checkedOut' = checkedOut \cup {c}
             /\ reqPc' = [reqPc EXCEPT ![r] = firstStep(reqTool[r])]
             /\ UNCHANGED reqResult
       \/ /\ reqResult' = [reqResult EXCEPT ![r] = "error"]
          /\ reqPc' = [reqPc EXCEPT ![r] = "finally"]
          /\ UNCHANGED <<reqConn, checkedOut>>
    /\ UNCHANGED <<reqArg, connTxn, connLog, warnings, reqTool, reqStep,
                   closeCalls, settledWith>>
    /\ UNCHANGED notQueryVars

\* await connection.execute("SET TRANSACTION READ ONLY")
ExecuteSet(r) ==
    /\ reqPc[r] = "setReadOnly"
    /\ \E ok \in BOOLEAN :
          /\ ok => CanSucceed(SetReadOnly, connTxn[reqConn[r]])
          /\ Execute(r, SetReadOnly, ok)
          /\ reqPc' = [reqPc EXCEPT ![r] = afterSet(ok)]
          /\ reqResult' = [reqResult EXCEPT ![r] = IF ok THEN @ ELSE "error"]
    /\ UNCHANGED <<reqArg, reqConn, checkedOut, warnings, reqTool, reqStep,
                   closeCalls, settledWith>>
    /\ UNCHANGED notQueryVars

\* const result = await connection.execute(sql, ...), then the return
\* statement, or the rejection thrown again by the catch clause
ExecuteSql(r) ==
    /\ reqPc[r] = "executeSql"
    /\ \E ok \in BOOLEAN :
          /\ ok => CanSucceed(sqlOf(reqArg[r]), connTxn[reqConn[r]])
          /\ Execute(r, sqlOf(reqArg[r]), ok)
          /\ reqResult' = [reqResult EXCEPT ![r] = IF ok THEN "rows" ELSE "error"]
    /\ reqPc' = [reqPc EXCEPT ![r] = "finally"]
    /\ UNCHANGED <<reqArg, reqConn, checkedOut, warnings, reqTool, reqStep,
                   closeCalls, settledWith>>
    /\ UNCHANGED notQueryVars

\* the test of the finally clause that closes only after a body that
\* succeeded
needsClose_onlyOnSuccess(c, result) == c # 0 /\ result # "error"

\* finally { if (connection) ... }: whatever the body gave
needsClose(c, result) == c # 0

\* the error of connection.close() thrown out of the finally clause
resultAfterClose_throws(result, ok) == IF ok THEN result ELSE "closeError"

\* what the handler settles with after try { await connection.close() }
\* catch (err) { console.warn(...) }: what the body gave
resultAfterClose(result, ok) == result

\* finally: if (connection) await connection.close(), which rolls back and
\* releases the connection, or fails and is logged; then the handler's
\* promise settles
Finally(r) ==
    /\ reqPc[r] = "finally"
    /\ \/ /\ ~needsClose(reqConn[r], reqResult[r])
          /\ settledWith' = [settledWith EXCEPT ![r] = reqResult[r]]
          /\ UNCHANGED <<checkedOut, connTxn, warnings, closeCalls>>
       \/ /\ needsClose(reqConn[r], reqResult[r])
          /\ \E ok \in BOOLEAN :
                /\ closeCalls' = [closeCalls EXCEPT ![r] = @ + 1]
                /\ checkedOut' = IF ok THEN checkedOut \ {reqConn[r]} ELSE checkedOut
                /\ connTxn' = IF ok THEN [connTxn EXCEPT ![reqConn[r]] = "none"]
                                    ELSE connTxn
                /\ warnings' = IF ok THEN warnings
                                     ELSE [warnings EXCEPT ![r] = @ + 1]
                /\ settledWith' =
                      [settledWith EXCEPT ![r] = resultAfterClose(reqResult[r], ok)]
    /\ reqPc' = [reqPc EXCEPT ![r] = "done"]
    /\ UNCHANGED <<reqArg, reqConn, reqResult, connLog, reqTool, reqStep>>
    /\ UNCHANGED notQueryVars

InitQuery == PathIdle /\ RootsIdle /\ FileIdle /\ ServersIdle /\ QueryIdle

NextQuery ==
    \E r \in Requests :
        \/ Call(r)
        \/ GetConnection(r)
        \/ ExecuteSet(r)
        \/ ExecuteSql(r)
        \/ Finally(r)

SpecQuery == InitQuery /\ [][NextQuery]_vars

----------------------------------------------------------------------------
\* C18: on every connection, a statement supplied by a client is executed
\* only right after a 'SET TRANSACTION READ ONLY' that succeeded on that
\* connection, in the read-only transaction it opened; after one that failed
\* the client's statement is not executed.
C18_ReadOnlyFirst ==
    \A c \in Connections : \A k \in 1..Len(connLog[c]) :
        connLog[c][k].client =>
            /\ k > 1
            /\ connLog[c][k - 1].stmt = SetReadOnly
            /\ connLog[c][k - 1].ok
            /\ connLog[c][k].txn = "readonly"

\* a connection used by two requests: for the first SET TRANSACTION READ
\* ONLY succeeded and the client's statement was executed, for the second it
\* failed and the handler ended with an error without executing anything
C18_Witness ==
    \E c \in Connections : \E r \in Requests :
        /\ Len(connLog[c]) = 3
        /\ connLog[c][1].ok /\ connLog[c][2].client /\ connLog[c][2].ok
        /\ connLog[c][3].stmt = SetReadOnly /\ ~connLog[c][3].ok
        /\ reqConn[r] = c /\ reqPc[r] = "done" /\ reqResult[r] = "error"

----------------------------------------------------------------------------
(* The chunked head and tail reads: simulateHeadFile and simulateTailFile   *)
(* of src/unnamed/part_003, lines 64-171                                    *)

\* most characters in the file
MaxFileLen == 4

\* most lines asked for
MaxNumLines == 2

\* the size of the read buffer, Buffer.alloc(1024) and CHUNK_SIZE = 1024 in
\* the source, scaled down so that files of MaxFileLen characters span
\* several chunks
ChunkSize == 2

CR == "\r"

\* a character whose UTF-8 encoding has two bytes, and those bytes
TwoByteChar == "é"
LeadByte == "0xC3"
ContinuationByte == "0xA9"

\* U+FFFD, what the decoder gives for bytes that are not a complete character
REPLACEMENT == "U+FFFD"

\* the bytes fs.writeFile stores for a string
RECURSIVE Utf8Encode(_)
Utf8Encode(s) ==
    IF s = <<>> THEN <<>>
    ELSE (IF Head(s) = TwoByteChar THEN <<LeadByte, ContinuationByte>> ELSE <<Head(s)>>)
             \o Utf8Encode(Tail(s))

\* buf.toString('utf-8'): a lead byte with its continuation byte is the
\* character; a lead byte without it, or a continuation byte alone, is U+FFFD
RECURSIVE Utf8Decode(_)
Utf8Decode(b) ==
    IF b = <<>> THEN <<>>
    ELSE IF Head(b) = LeadByte
    THEN IF Len(b) >= 2 /\ b[2] = ContinuationByte
         THEN <<TwoByteChar>> \o Utf8Decode(Tail(Tail(b)))
         ELSE <<REPLACEMENT>> \o Utf8Decode(Tail(b))
    ELSE IF Head(b) = ContinuationByte
    THEN <<REPLACEMENT>> \o Utf8Decode(Tail(b))
    ELSE <<Head(b)>> \o Utf8Decode(Tail(b))

\* fileHandle.read(chunk, 0, size, position) on a regular file: the bytes
\* from position on, size of them or those left
ReadAt(bytes, position, size) ==
    LET last == IF position + size < Len(bytes) THEN position + size ELSE Len(bytes)
    IN  SubSeq(bytes, position + 1, last)

\* s.lastIndexOf('\n'), counting from 0; -1 when there is none
LastIndexOfNewline(s) ==
    LET at == {k \in 1..Len(s) : s[k] = NEWLINE}
    IN  IF at = {} THEN -1
        ELSE (CHOOSE k \in at : \A j \in at : j <= k) - 1

\* s.split('\n')
RECURSIVE SplitLines(_)
SplitLines(s) ==
    LET at == {k \in 1..Len(s) : s[k] = NEWLINE}
    IN  IF at = {} THEN <<s>>
        ELSE LET k == CHOOSE i \in at : \A j \in at : i <= j
             IN  <<SubSeq(s, 1, k - 1)>> \o SplitLines(SubSeq(s, k + 1, Len(s)))

\* list.join('\n')
RECURSIVE JoinLines(_)
JoinLines(list) ==
    IF list = <<>> THEN <<>>
    ELSE IF Len(list) = 1 THEN list[1]
    ELSE list[1] \o <<NEWLINE>> \o JoinLines(Tail(list))

\* the first k entries of list, all of them when it has fewer
FirstOf(list, k) == SubSeq(list, 1, IF k < Len(list) THEN k ELSE Len(list))

\* the last k entries of list, all of them when it has fewer
LastOf(list, k) == SubSeq(list, (IF k < Len(list) THEN Len(list) - k ELSE 0) + 1, Len(list))

\* text.replace(/\r\n/g, '\n')
RECURSIVE normalizeLineEndings(_)
normalizeLineEndings(text) ==
    IF text = <<>> THEN <<>>
    ELSE IF Len(text) >= 2 /\ text[1] = CR /\ text[2] = NEWLINE
    THEN <<NEWLINE>> \o normalizeLineEndings(Tail(Tail(text)))
    ELSE <<Head(text)>> \o normalizeLineEndings(Tail(text))

\* the while loop of simulateHeadFile (lines 72-87) from one test of its
\* condition on, then lines 89-93
RECURSIVE HeadLoop(_, _, _, _, _)
HeadLoop(bytes, n, lines, buffer, bytesRead) ==
    LET chunk == ReadAt(bytes, bytesRead, ChunkSize)
        text == buffer \o Utf8Decode(chunk)
        newLineIndex == LastIndexOfNewline(text)
        completeLines == SplitLines(SubSeq(text, 1, newLineIndex))
    IN  IF Len(lines) < n /\ chunk # <<>>
        THEN IF newLineIndex # -1
             THEN HeadLoop(bytes, n,
                           lines \o FirstOf(completeLines, n - Len(lines)),
                           SubSeq(text, newLineIndex + 2, Len(text)),
                           bytesRead + Len(chunk))
             ELSE HeadLoop(bytes, n, lines, text, bytesRead + Len(chunk))
        ELSE JoinLines(IF buffer # <<>> /\ Len(lines) < n
                       THEN Append(lines, buffer) ELSE lines)

simulateHeadFile(bytes, n) == HeadLoop(bytes, n, <<>>, <<>>, 0)

\* the while loop of simulateTailFile (lines 144-165) from one test of its
\* condition on, then line 167
RECURSIVE TailLoop(_, _, _, _, _, _)
TailLoop(bytes, n, lines, position, linesFound, remainingText) ==
    IF position > 0 /\ linesFound < n
    THEN LET size == IF ChunkSize < position THEN ChunkSize ELSE position
             at == position - size
             readData == Utf8Decode(ReadAt(bytes, at, size))
             chunkText == readData \o remainingText
             allLines == SplitLines(normalizeLineEndings(chunkText))
             chunkLines == IF at > 0 THEN Tail(allLines) ELSE allLines
             taken == LastOf(chunkLines, n - linesFound)
         IN  TailLoop(bytes, n, taken \o lines, at, linesFound + Len(taken),
                      IF at > 0 THEN allLines[1] ELSE remainingText)
    ELSE JoinLines(lines)

simulateTailFile(bytes, n) ==
    IF Len(bytes) = 0 THEN <<>> ELSE TailLoop(bytes, n, <<>>, Len(bytes), 0, <<>>)

\* the characters of the files
FileChars == {"a", NEWLINE, CR, TwoByteChar}

\* the contents of the files
Contents == UNION {[1..k -> FileChars] : k \in 0..MaxFileLen}

InitFile ==
    /\ PathIdle /\ RootsIdle /\ QueryIdle /\ ServersIdle
    /\ content \in Contents
    /\ numLines \in 1..MaxNumLines
    /\ fileOp = "idle"
    /\ fileResult = <<>>

\* await simulateHeadFile(testFile, numLines) on a file written with content
HeadFile ==
    /\ fileOp = "idle"
    /\ fileOp' = "head"
    /\ fileResult' = simulateHeadFile(Utf8Encode(content), numLines)
    /\ UNCHANGED <<content, numLines>>
    /\ UNCHANGED notFileVars

\* await simulateTailFile(testFile, numLines) on a file written with content
TailFile ==
    /\ fileOp = "idle"
    /\ fileOp' = "tail"
    /\ fileResult' = simulateTailFile(Utf8Encode(content), numLines)
    /\ UNCHANGED <<content, numLines>>
    /\ UNCHANGED notFileVars

NextFile == HeadFile \/ TailFile

SpecFile == InitFile /\ [][NextFile]_vars

----------------------------------------------------------------------------
(* Vocabulary of the properties of the chunked reads *)

\* the lines of a text for head: its pieces between newlines, without the
\* empty piece after a final newline
HeadLines(text) ==
    LET pieces == SplitLines(text)
    IN  IF Len(pieces) > 1 /\ pieces[Len(pieces)] = <<>>
        THEN SubSeq(pieces, 1, Len(pieces) - 1)
        ELSE pieces

\* the lines of a text for tail: CRLF replaced by LF, then the pieces
\* between newlines
TailLines(text) == SplitLines(normalizeLineEndings(text))

\* no character of the text needs more than one byte
IsAscii(text) == \A k \in 1..Len(text) : text[k] # TwoByteChar

----------------------------------------------------------------------------
\* C19: head returns the first min(n, L) lines of the content joined by
\* newlines, whatever the content and wherever the chunks cut it.
C19_HeadLines ==
    fileOp = "head" =>
        fileResult = JoinLines(FirstOf(HeadLines(content), numLines))

\* C20: tail returns the last min(n, L) lines of the content, CRLF taken as
\* LF, joined by newlines, wherever the chunks cut it: inside a line or
\* between a CR and its LF. (Stated for contents of one-byte characters;
\* a character cut by a chunk boundary is the case of C19.)
C20_TailLines ==
    (fileOp = "tail" /\ IsAscii(content)) =>
        fileResult = JoinLines(LastOf(TailLines(content), numLines))

----------------------------------------------------------------------------
(* The handlers of the Oracle server that take a connection from the pool:  *)
(* list resources, read resource and the tools query, explain and stats     *)
(* (src/src/oracle/index.ts, lines 87-158 and 210-331)                      *)

\* const SCHEMA_PATH = "schema"
SCHEMA_PATH == "schema"

\* the statements the handlers execute
ListTables == <<"SELECT table_name FROM user_tables">>
GetMetadata == <<"select dbms_developer.get_metadata">>
ExplainPlanFor == "EXPLAIN PLAN FOR "
DisplayPlan == <<"SELECT * FROM TABLE(DBMS_XPLAN.DISPLAY)">>
TableStats == <<"SELECT JSON_OBJECT FROM dual">>

Handlers == {"listResources", "readResource", "query", "explain", "stats"}

\* no argument
NoArgument == [isString |-> FALSE, text |-> <<>>]

\* resourceUrl.pathname.split("/") for the uris the clients read: a table's
\* schema and another path of a table
ResourcePaths ==
    { [isString |-> TRUE, text |-> <<"", "T", "schema">>],
      [isString |-> TRUE, text |-> <<"", "T", "rows">>] }

\* what a request for a handler carries: the pieces of the uri's path for
\* read resource, arguments.sql for query and explain
ArgumentsOf(tool) ==
    IF tool = "readResource" THEN ResourcePaths
    ELSE IF tool = "query"
    THEN {[isString |-> TRUE, text |-> <<"SELECT">>]}
    ELSE IF tool = "explain"
    THEN {[isString |-> TRUE, text |-> <<"INSERT", SEMICOLON>>]}
    ELSE {NoArgument}

\* const schema = pathComponents.pop()
schemaOf(pieces) == pieces[Len(pieces)]

\* the handler throws before it asks for a connection: line 130
ThrowsEarly(tool, a) == tool = "readResource" /\ schemaOf(a.text) # SCHEMA_PATH

\* the statements a handler other than query executes, in order
StatementsOf(tool, a) ==
    IF tool = "listResources" THEN <<ListTables>>
    ELSE IF tool = "readResource" THEN <<GetMetadata>>
    ELSE IF tool = "explain" THEN << <<ExplainPlanFor>> \o sqlOf(a), DisplayPlan >>
    ELSE <<TableStats>>

\* a request arrives for one of the handlers; read resource checks the uri
CallHandler(r) ==
    /\ reqPc[r] = "idle"
    /\ \E tool \in Handlers : \E a \in ArgumentsOf(tool) :
          /\ reqTool' = [reqTool EXCEPT ![r] = tool]
          /\ reqArg' = [reqArg EXCEPT ![r] = a]
          /\ IF ThrowsEarly(tool, a)
             THEN /\ reqPc' = [reqPc EXCEPT ![r] = "done"]
                  /\ reqResult' = [reqResult EXCEPT ![r] = "error"]
                  /\ settledWith' = [settledWith EXCEPT ![r] = "error"]
             ELSE /\ reqPc' = [reqPc EXCEPT ![r] = "getConnection"]
                  /\ UNCHANGED <<reqResult, settledWith>>
    /\ UNCHANGED <<reqConn, checkedOut, connTxn, connLog, warnings, reqStep, closeCalls>>
    /\ UNCHANGED notQueryVars

\* await connection.execute(...) of a handler other than query, and after
\* the last one the return statement, whose expression may throw
ExecuteStatement(r) ==
    /\ reqPc[r] = "execute"
    /\ LET stmts == StatementsOf(reqTool[r], reqArg[r])
           stmt == stmts[reqStep[r] + 1]
       IN  \E ok \in BOOLEAN : \E built \in BOOLEAN :
              /\ ok => CanSucceed(stmt, connTxn[reqConn[r]])
              /\ Execute(r, stmt, ok)
              /\ reqStep' = [reqStep EXCEPT ![r] = @ + 1]
              /\ IF ok /\ reqStep[r] + 1 < Len(stmts)
                 THEN /\ built
                      /\ UNCHANGED <<reqPc, reqResult>>
                 ELSE /\ ~ok => built
                      /\ reqPc' = [reqPc EXCEPT ![r] = "finally"]
                      /\ reqResult' = [reqResult EXCEPT ![r] =
                                          IF ok /\ built THEN "rows" ELSE "error"]
    /\ UNCHANGED <<reqArg, reqConn, checkedOut, warnings, reqTool, closeCalls,
                   settledWith>>
    /\ UNCHANGED notQueryVars

NextHandlers ==
    \E r \in Requests :
        \/ CallHandler(r)
        \/ GetConnection(r)
        \/ ExecuteSet(r)
        \/ ExecuteSql(r)
        \/ ExecuteStatement(r)
        \/ Finally(r)

SpecHandlers == InitQuery /\ [][NextHandlers]_vars

----------------------------------------------------------------------------
\* C21: a handler calls connection.close() at most once, and exactly once
\* by the time it completes when it obtained a connection, whether its
\* statements succeeded or not; a connection whose close failed has a log
\* line; and the handler settles with what its body gave.
C21_ClosedOnce ==
    /\ \A r \in Requests :
          /\ closeCalls[r] <= 1
          /\ warnings[r] <= closeCalls[r]
          /\ reqPc[r] = "done" =>
                /\ closeCalls[r] = (IF reqConn[r] # 0 THEN 1 ELSE 0)
                /\ settledWith[r] = reqResult[r]
                /\ settledWith[r] \in {"rows", "error"}
    /\ \A c \in checkedOut :
          (\A r \in Requests : reqConn[r] = c => reqPc[r] = "done")
              => \E r \in Requests : reqConn[r] = c /\ warnings[r] = 1

\* an explain call whose second statement failed and whose close failed
\* too: closed once, logged, settled with the error of the statement; and a
\* list resources call that succeeded and closed its connection
C21_Witness ==
    \E r, q \in Requests :
        /\ reqTool[r] = "explain" /\ reqPc[r] = "done" /\ reqStep[r] = 2
        /\ reqResult[r] = "error" /\ settledWith[r] = "error"
        /\ closeCalls[r] = 1 /\ warnings[r] = 1
        /\ reqTool[q] = "listResources" /\ reqPc[q] = "done"
        /\ settledWith[q] = "rows" /\ closeCalls[q] = 1 /\ warnings[q] = 0

----------------------------------------------------------------------------
(* The connect tool of the Oracle server: lines 332-369 and initializePool, *)
(* lines 56-84, of src/src/oracle/index.ts                                  *)

\* most calls of the connect tool
MaxConnectCalls == 2

\* the values of an argument: a non-empty string, the empty string, a value
\* that is not a string, and none
ConnectArgValues ==
    { [kind |-> "string", text |-> <<"n">>],
      [kind |-> "string", text |-> <<>>],
      [kind |-> "number", text |-> <<>>],
      [kind |-> "undefined", text |-> <<>>] }

\* request.params.arguments of a call of connect
ConnectArguments ==
    [connectionString : ConnectArgValues, user : ConnectArgValues,
     password : ConnectArgValues]

\* typeof x !== "string" || !x
IsUnusable(x) == x.kind # "string" \/ x.text = <<>>

\* the test of lines 336-340
ArgumentsRefused(a) ==
    IsUnusable(a.connectionString) \/ IsUnusable(a.user) \/ IsUnusable(a.password)

\* the test of line 60 of initializePool: !dbUser || !dbPassword
CredentialsMissing(e) == e.user = <<>> \/ e.password = <<>>

\* the results the handler returns
MissingArgument ==
    [isError |-> TRUE,
     text |-> "Missing or invalid connectionString, user, or password argument."]
FailedToConnect == [isError |-> TRUE, text |-> "Failed to connect"]
Connected == [isError |-> FALSE, text |-> "Successfully connected"]

\* what initializePool does when oracledb.createPool rejects: its own catch
\* clause logs and calls process.exit(1)
onCreatePoolFailure == "exit"

\* the call arrives; arguments that are missing, empty or not strings are
\* refused at once
ConnectCall ==
    /\ process = "running"
    /\ cPc \in {"idle", "done"}
    /\ calls < MaxConnectCalls
    /\ calls' = calls + 1
    /\ before' = [pool |-> pool, env |-> env]
    /\ created' = "none"
    /\ \E a \in ConnectArguments :
          /\ cArgs' = a
          /\ IF ArgumentsRefused(a)
             THEN cResult' = MissingArgument /\ cPc' = "done"
             ELSE cResult' = NoResult /\ cPc' = "closePool"
    /\ UNCHANGED <<pool, env, process>>
    /\ UNCHANGED notConnectVars

\* if (pool) await pool.close(0), a failure of which is logged; then the
\* environment is overridden
ClosePool ==
    /\ process = "running"
    /\ cPc = "closePool"
    /\ \E ok \in BOOLEAN :
          pool' = IF ok THEN [pool EXCEPT !.open = FALSE] ELSE pool
    /\ env' = [user |-> cArgs.user.text, password |-> cArgs.password.text]
    /\ cPc' = "initializePool"
    /\ UNCHANGED <<process, cArgs, cResult, created, before, calls>>
    /\ UNCHANGED notConnectVars

\* await initializePool(newConnectionString), then the return of line 359
\* or the catch clause of line 363
InitializePool ==
    /\ process = "running"
    /\ cPc = "initializePool"
    /\ IF CredentialsMissing(env)
       THEN /\ process' = "exited"
            /\ UNCHANGED <<pool, cPc, cResult, created>>
       ELSE \E ok \in BOOLEAN :
              /\ created' = IF ok THEN "fulfilled" ELSE "rejected"
              /\ IF ok
                 THEN /\ pool' = [id |-> pool.id + 1, open |-> TRUE]
                      /\ cResult' = Connected
                      /\ cPc' = "done"
                      /\ UNCHANGED process
                 ELSE IF onCreatePoolFailure = "exit"
                 THEN /\ process' = "exited"
                      /\ UNCHANGED <<pool, cPc, cResult>>
                 ELSE /\ cResult' = FailedToConnect
                      /\ cPc' = "done"
                      /\ UNCHANGED <<pool, process>>
    /\ UNCHANGED <<env, cArgs, before, calls>>
    /\ UNCHANGED notConnectVars

InitConnect ==
    PathIdle /\ RootsIdle /\ QueryIdle /\ FileIdle /\ SseIdle /\ StdioIdle /\ ConnectIdle

NextConnect == ConnectCall \/ ClosePool \/ InitializePool

SpecConnect == InitConnect /\ [][NextConnect]_vars

----------------------------------------------------------------------------
\* C22: when connect is called with usable arguments and creating the pool
\* fails, the process keeps running and the call returns isError true with
\* 'Failed to connect'; when an argument is refused, the call returns
\* isError true and the pool and the credentials are as they were.
C22_ConnectErrors ==
    /\ created = "rejected" =>
          /\ process = "running"
          /\ cPc = "done"
          /\ cResult = FailedToConnect
    /\ (cPc = "done" /\ ArgumentsRefused(cArgs)) =>
          /\ cResult.isError
          /\ pool = before.pool
          /\ env = before.env

----------------------------------------------------------------------------
(* The SSE server: app.get("/sse") and app.post("/message") of              *)
(* src/src/everything/sse.ts, lines 15-57.  The sessionId of a transport    *)
(* is the session's number.                                                 *)

\* GET /sse without sessionId: the transport is created and stored, and the
\* handler waits for server.connect(transport)
GetSse(s) ==
    /\ getPc[s] = "none"
    /\ transports' = transports \cup {s}
    /\ link' = [link EXCEPT ![s] = "open"]
    /\ getPc' = [getPc EXCEPT ![s] = "connecting"]
    /\ UNCHANGED <<onclose, cleaned, posted, reconnect>>
    /\ UNCHANGED notSseVars

\* server.connect resolves: the handler logs, starts the notification
\* intervals and assigns server.onclose
ConnectResolves(s) ==
    /\ getPc[s] = "connecting"
    /\ getPc' = [getPc EXCEPT ![s] = "connected"]
    /\ onclose' = [onclose EXCEPT ![s] = TRUE]
    /\ UNCHANGED <<transports, link, cleaned, posted, reconnect>>
    /\ UNCHANGED notSseVars

\* server.connect rejects: the handler ends there
ConnectRejects(s) ==
    /\ getPc[s] = "connecting"
    /\ getPc' = [getPc EXCEPT ![s] = "rejected"]
    /\ UNCHANGED <<transports, link, onclose, cleaned, posted, reconnect>>
    /\ UNCHANGED notSseVars

\* the client's connection closes: the server's onclose callback is called
\* if one is assigned by then, and deletes the session and calls cleanup()
ClientCloses(s) ==
    /\ link[s] = "open"
    /\ link' = [link EXCEPT ![s] = "closed"]
    /\ IF onclose[s]
       THEN /\ transports' = transports \ {s}
            /\ cleaned' = [cleaned EXCEPT ![s] = TRUE]
       ELSE UNCHANGED <<transports, cleaned>>
    /\ UNCHANGED <<getPc, onclose, posted, reconnect>>
    /\ UNCHANGED notSseVars

\* POST /message?sessionId=s
PostMessage(s) ==
    /\ posted' = [posted EXCEPT ![s] =
                     IF s \in transports THEN "handled" ELSE "no transport"]
    /\ UNCHANGED <<transports, getPc, link, onclose, cleaned, reconnect>>
    /\ UNCHANGED notSseVars

\* GET /sse?sessionId=s: transports.get(sessionId), then transport.sessionId
\* is read for the log line, which throws when there is no such transport
Reconnect(s) ==
    /\ reconnect' = [reconnect EXCEPT ![s] =
                        IF s \in transports THEN "logged" ELSE "threw"]
    /\ UNCHANGED <<transports, getPc, link, onclose, cleaned, posted>>
    /\ UNCHANGED notSseVars

InitSse ==
    PathIdle /\ RootsIdle /\ QueryIdle /\ FileIdle /\ ConnectIdle /\ StdioIdle /\ SseIdle

NextSse ==
    \E s \in Sessions :
        \/ GetSse(s)
        \/ ConnectResolves(s)
        \/ ConnectRejects(s)
        \/ ClientCloses(s)
        \/ PostMessage(s)
        \/ Reconnect(s)

\* a pending server.connect settles
ConnectSettles(s) == ConnectResolves(s) \/ ConnectRejects(s)

\* the server's own steps are taken: every pending server.connect settles
SpecSse ==
    InitSse /\ [][NextSse]_vars /\ \A s \in Sessions : WF_vars(ConnectSettles(s))

----------------------------------------------------------------------------
\* C23: a stored session is in the map while its connection is open, and
\* once its connection has closed it is eventually out of the map with
\* cleanup() run.
C23_ClosedRemoved ==
    /\ [](\A s \in Sessions : link[s] = "open" => s \in transports)
    /\ \A s \in Sessions :
          (link[s] = "closed") ~> (s \notin transports /\ cleaned[s])

----------------------------------------------------------------------------
(* The STDIO server: the setLevel handler and sendLoggingMessage of         *)
(* src/unnamed/part_001, lines 23-46                                        *)

\* LoggingLevelSchema.options: the levels in order of severity
LoggingLevels ==
    <<"debug", "info", "notice", "warning", "error", "critical", "alert", "emergency">>

\* the levels a request or a message may carry
Levels == {LoggingLevels[k] : k \in 1..Len(LoggingLevels)}

\* LOG_LEVEL_SEVERITY.get(level): the index of the level in the options,
\* from 0
LOG_LEVEL_SEVERITY(level) ==
    (CHOOSE k \in 1..Len(LoggingLevels) : LoggingLevels[k] = level) - 1

\* isMessageIgnored with <= for <
isMessageIgnored_orEqual(level, currentLevel) ==
    IF currentLevel # ""
    THEN LOG_LEVEL_SEVERITY(level) <= LOG_LEVEL_SEVERITY(currentLevel)
    ELSE FALSE

\* isMessageIgnored(level), currentLevel being logLevel
isMessageIgnored(level, currentLevel) ==
    IF currentLevel # ""
    THEN LOG_LEVEL_SEVERITY(level) < LOG_LEVEL_SEVERITY(currentLevel)
    ELSE FALSE

\* a setLevel request: logLevel = level
SetLevel(level) ==
    /\ logLevel' = level
    /\ lastSet' = level
    /\ UNCHANGED logged
    /\ UNCHANGED notStdioVars

\* server.sendLoggingMessage(params): the notification is sent unless the
\* message is ignored
SendLoggingMessage(level) ==
    /\ logged' = [level |-> level, requested |-> lastSet,
                  sent |-> ~isMessageIgnored(level, logLevel)]
    /\ UNCHANGED <<logLevel, lastSet>>
    /\ UNCHANGED notStdioVars

InitStdio ==
    PathIdle /\ RootsIdle /\ QueryIdle /\ FileIdle /\ ConnectIdle /\ SseIdle /\ StdioIdle

NextStdio ==
    \E level \in Levels :
        \/ SetLevel(level)
        \/ SendLoggingMessage(level)

SpecStdio == InitStdio /\ [][NextStdio]_vars

----------------------------------------------------------------------------
\* the level in force after the setLevel requests so far: 'debug' before
\* the first one
LevelInForce(request) == IF request = "none" THEN "debug" ELSE request

\* C24: the current level is 'debug' at start and then that of the most
\* recent setLevel request, and a message is sent as a notification exactly
\* when its level's index is at least that of the level current when it was
\* logged.
C24_LevelFilter ==
    /\ logLevel = LevelInForce(lastSet)
    /\ logged.level # "none" =>
          (logged.sent <=>
              LOG_LEVEL_SEVERITY(logged.level)
                  >= LOG_LEVEL_SEVERITY(LevelInForce(logged.requested)))

\* a message of level 'warning' logged while the level requested was
\* 'warning' has been sent, and the level has since been set to 'error'
C24_Witness ==
    /\ logged = [level |-> "warning", requested |-> "warning", sent |-> TRUE]
    /\ logLevel = "error"

====
